---- MODULE Spec2Model ----
(***************************************************************************)
(* A model of units-convertor/unit_converter.py: the conversion function   *)
(* convert_units, the session bookkeeping save_conversion_history and      *)
(* toggle_favorite, and the Convert button of main().                      *)
(*                                                                         *)
(* Numbers.  A Python value is a record [kind, num, den]:                  *)
(*   kind = "finite"  the rational num/den in lowest terms, den > 0;       *)
(*   kind = "nan", "inf", "-inf"  the non-finite floats;                   *)
(*   kind = "str"     a value that is neither int nor float;               *)
(*   kind = "None"    Python's None (the error outcome of convert_units).  *)
(* Arithmetic on finite values is exact rational arithmetic: the rounding  *)
(* of IEEE doubles is not modelled.                                        *)
(***************************************************************************)
EXTENDS Integers, Sequences, FiniteSets, TLC

VARIABLES
    call,                    \* the last convert_units invocation and what it returned
    prev,                    \* the invocation whose result was passed on as call.value, or NoCall
    conversion_history,      \* st.session_state.conversion_history
    has_conversion_history,  \* 'conversion_history' in st.session_state
    recorded,                \* every history_item created so far, oldest first (history variable)
    serials,                 \* for each entry of conversion_history, its index in recorded
    now,                     \* datetime.now(), in whole seconds
    favorites,               \* st.session_state.favorites
    has_favorites,           \* 'favorites' in st.session_state
    category,                \* the "Select Category" selectbox
    from_unit,               \* the "From Unit" selectbox
    to_unit,                 \* the "To Unit" selectbox
    input_value,             \* the "Enter Value" number input
    clicks,                  \* how many times the Convert button was pressed
    edits                    \* how many times a widget was changed

vars == <<call, prev, conversion_history, has_conversion_history, recorded, serials,
          now, favorites, has_favorites, category, from_unit, to_unit, input_value,
          clicks, edits>>

convVars == <<call, prev>>
histVars == <<conversion_history, has_conversion_history, recorded, serials>>
favVars == <<favorites, has_favorites>>
uiVars == <<category, from_unit, to_unit, input_value, clicks, edits>>

----------------------------------------------------------------------------
(* Bounds of the model *)

\* save_conversion_history is called at most this many times in SpecHist
MaxRecords == 15
\* save_conversion_history is called at most this many times in SpecCore
MaxCoreRecords == 2
\* the Convert button is pressed at most this many times
MaxConverts == 12
\* the widgets are changed at most this many times
MaxEdits == 2
\* the clock advances at most this many seconds
MaxClock == 1

----------------------------------------------------------------------------
(* Python numbers *)

Abs(n) == IF n < 0 THEN -n ELSE n

RECURSIVE Gcd(_, _)
Gcd(a, b) == IF b = 0 THEN a ELSE Gcd(b, a % b)

\* the rational n/d (d # 0) in lowest terms with a positive denominator
Rat(n, d) ==
    LET g == Gcd(Abs(n), Abs(d))
        s == IF d < 0 THEN -1 ELSE 1
    IN  [kind |-> "finite", num |-> (s * n) \div g, den |-> (s * d) \div g]

Num(n) == Rat(n, 1)
NaN == [kind |-> "nan", num |-> 0, den |-> 1]
PosInf == [kind |-> "inf", num |-> 0, den |-> 1]
NegInf == [kind |-> "-inf", num |-> 0, den |-> 1]
None == [kind |-> "None", num |-> 0, den |-> 1]
\* a value that is not a number, such as the string "abc"
NotANumber == [kind |-> "str", num |-> 0, den |-> 1]

IsFinite(x) == x.kind = "finite"
IsFloat(x) == x.kind \in {"finite", "nan", "inf", "-inf"}

\* -1, 0 or 1 for a float that is not nan
Sign(x) ==
    CASE x.kind = "inf" -> 1
      [] x.kind = "-inf" -> -1
      [] OTHER -> IF x.num > 0 THEN 1 ELSE IF x.num < 0 THEN -1 ELSE 0

Signed(s) == IF s > 0 THEN PosInf ELSE IF s < 0 THEN NegInf ELSE NaN

\* x + y on floats
Add(x, y) ==
    IF x.kind = "nan" \/ y.kind = "nan" THEN NaN
    ELSE IF IsFinite(x) /\ IsFinite(y)
         THEN Rat(x.num * y.den + y.num * x.den, x.den * y.den)
    ELSE IF IsFinite(x) THEN y
    ELSE IF IsFinite(y) THEN x
    ELSE IF x.kind = y.kind THEN x ELSE NaN

Neg(x) ==
    CASE x.kind = "finite" -> Rat(-x.num, x.den)
      [] x.kind = "inf" -> NegInf
      [] x.kind = "-inf" -> PosInf
      [] OTHER -> x

\* x - y on floats
Sub(x, y) == Add(x, Neg(y))

\* x * y on floats
Mul(x, y) ==
    IF x.kind = "nan" \/ y.kind = "nan" THEN NaN
    ELSE IF IsFinite(x) /\ IsFinite(y) THEN Rat(x.num * y.num, x.den * y.den)
    ELSE Signed(Sign(x) * Sign(y))

\* x / y on floats, for a finite divisor other than zero
Div(x, y) == Mul(x, Rat(y.den, y.num))

----------------------------------------------------------------------------
(* The catalog and the unit registry *)

\* the categories of CATEGORIES the model keeps, in the order of the dictionary
CategoryNames == <<"Length", "Weight", "Temperature", "Currency">>

\* the units of each category the model keeps, in the order of the source's lists
CATEGORIES ==
    [c \in {"Length", "Weight", "Temperature", "Currency"} |->
        CASE c = "Length" -> <<"meters", "feet">>
          [] c = "Weight" -> <<"kilograms">>
          [] c = "Temperature" -> <<"celsius", "fahrenheit", "kelvin", "rankine">>
          [] c = "Currency" -> <<"USD">>]

Range(s) == {s[i] : i \in DOMAIN s}

UnitNames == UNION {Range(CATEGORIES[c]) : c \in DOMAIN CATEGORIES}

TemperatureUnits == {"celsius", "fahrenheit", "kelvin", "rankine"}

\* pint's default registry, for the names of the catalog it defines: the
\* dimension of each and its size in the base unit of the dimension.  It
\* defines no currency, so "USD" is not a name of the registry.
ureg ==
    [u \in {"meters", "feet", "kilograms", "celsius", "fahrenheit", "kelvin", "rankine"} |->
        CASE u = "meters" -> [dim |-> "[length]", factor |-> Num(1)]
          [] u = "feet" -> [dim |-> "[length]", factor |-> Rat(3048, 10000)]
          [] u = "kilograms" -> [dim |-> "[mass]", factor |-> Num(1)]
          [] OTHER -> [dim |-> "[temperature]", factor |-> Num(1)]]

----------------------------------------------------------------------------
(* convert_units *)

\* 273.15 and 459.67
C273_15 == Rat(27315, 100)
C459_67 == Rat(45967, 100)

\* a variant of pint_convert that scales without comparing the dimensions
pint_convert_unchecked(value, from, to) ==
    IF from \notin DOMAIN ureg \/ to \notin DOMAIN ureg THEN None
    ELSE Div(Mul(value, ureg[from].factor), ureg[to].factor)

\* lines 76-82: value * ureg(from_unit), .to(to_unit), float(magnitude); any
\* exception (an undefined unit, a dimensionality error) gives None
pint_convert(value, from, to) ==
    IF from \notin DOMAIN ureg \/ to \notin DOMAIN ureg THEN None
    ELSE IF ureg[from].dim # ureg[to].dim THEN None
    ELSE Div(Mul(value, ureg[from].factor), ureg[to].factor)

\* a variant of convert_units that takes kelvin for celsius on the way to
\* fahrenheit: kelvin * 9/5 + 32
convert_units_celsius_offset(value, from, to) ==
    IF ~IsFloat(value) THEN None
    ELSE IF from \in TemperatureUnits
    THEN LET kelvin ==
                 IF from = "celsius" THEN Add(value, C273_15)
                 ELSE IF from = "fahrenheit"
                      THEN Div(Mul(Add(value, C459_67), Num(5)), Num(9))
                 ELSE IF from = "rankine" THEN Div(Mul(value, Num(5)), Num(9))
                 ELSE value
         IN  IF to = "celsius" THEN Sub(kelvin, C273_15)
             ELSE IF to = "fahrenheit"
                  THEN Add(Div(Mul(kelvin, Num(9)), Num(5)), Num(32))
             ELSE IF to = "rankine" THEN Div(Mul(kelvin, Num(9)), Num(5))
             ELSE kelvin
    ELSE pint_convert(value, from, to)

convert_units(value, from, to) ==
    IF ~IsFloat(value) THEN None
    ELSE IF from \in TemperatureUnits
    THEN LET kelvin ==
                 IF from = "celsius" THEN Add(value, C273_15)
                 ELSE IF from = "fahrenheit"
                      THEN Div(Mul(Add(value, C459_67), Num(5)), Num(9))
                 ELSE IF from = "rankine" THEN Div(Mul(value, Num(5)), Num(9))
                 ELSE value
         IN  IF to = "celsius" THEN Sub(kelvin, C273_15)
             ELSE IF to = "fahrenheit"
                  THEN Sub(Div(Mul(kelvin, Num(9)), Num(5)), C459_67)
             ELSE IF to = "rankine" THEN Div(Mul(kelvin, Num(9)), Num(5))
             ELSE kelvin
    ELSE pint_convert(value, from, to)

----------------------------------------------------------------------------
(* Inputs *)

\* the values convert_units is called with
Values == {Num(0), Num(32), Num(100), Num(-40), Rat(5, 2),
           NaN, PosInf, NegInf, NotANumber}

\* what st.number_input returns: a finite float
NumberInputs == {Num(0), Num(100)}

NoCall == [value |-> None, from |-> "", to |-> "", result |-> None]


\* the arguments convert_units is called with beside the other operations:
\* a finite value, a non-finite one and one that is no number; a temperature
\* unit, a unit of the registry and a name the registry does not define
CoreValues == {Num(0), NaN, NotANumber}
CoreUnits == {"celsius", "meters", "USD"}

\* the unit pairs toggle_favorite is called with
FavoriteUnits == {"meters", "feet"}

\* the requests whose conversions save_conversion_history is called with
SaveRequests == {<<Num(0), "celsius", "fahrenheit">>, <<Num(100), "meters", "feet">>}

----------------------------------------------------------------------------
(* save_conversion_history and toggle_favorite *)

\* line 102: "Keep only last 10 conversions"
HistoryLimit == 10

\* lines 93-99, with the timestamp in whole seconds
history_item(timestamp, value, from, to, result) ==
    [timestamp |-> timestamp, value |-> value, from_unit |-> from,
     to_unit |-> to, result |-> result]

\* a variant of save_conversion_history that appends the item at the back
save_conversion_history_appends(history, item) ==
    LET appended == Append(history, item)
    IN  IF Len(appended) > HistoryLimit
        THEN SubSeq(appended, 1, Len(appended) - 1)
        ELSE appended

\* a variant of save_conversion_history that evicts with pop(0): the front
save_conversion_history_pops_front(history, item) ==
    LET inserted == <<item>> \o history
    IN  IF Len(inserted) > HistoryLimit THEN Tail(inserted) ELSE inserted

\* lines 101-103 on the list: insert(0, item), then pop() if longer than 10
save_conversion_history(history, item) ==
    LET inserted == <<item>> \o history
    IN  IF Len(inserted) > HistoryLimit
        THEN SubSeq(inserted, 1, Len(inserted) - 1)
        ELSE inserted

\* line 110
conversion_pair(from, to) == from \o "->" \o to

\* a variant of toggle_favorite that never removes a key
toggle_favorite_add_only(favs, from, to) == favs \cup {conversion_pair(from, to)}

\* a variant of toggle_favorite that takes the pair for unordered and toggles
\* the reversed key along with the key
toggle_favorite_unordered(favs, from, to) ==
    IF conversion_pair(from, to) \in favs
    THEN favs \ {conversion_pair(from, to), conversion_pair(to, from)}
    ELSE favs \cup {conversion_pair(from, to), conversion_pair(to, from)}

\* lines 111-114 on the set
toggle_favorite(favs, from, to) ==
    IF conversion_pair(from, to) \in favs
    THEN favs \ {conversion_pair(from, to)}
    ELSE favs \cup {conversion_pair(from, to)}

----------------------------------------------------------------------------
(* The state after construction: an empty session, the widgets at their defaults *)

Init ==
    /\ call = NoCall
    /\ prev = NoCall
    /\ conversion_history = <<>>
    /\ has_conversion_history = FALSE
    /\ recorded = <<>>
    /\ serials = <<>>
    /\ now = 0
    /\ favorites = {}
    /\ has_favorites = FALSE
    /\ category = CategoryNames[1]
    /\ from_unit = CATEGORIES[CategoryNames[1]][1]
    /\ to_unit = CATEGORIES[CategoryNames[1]][1]
    /\ input_value = Num(0)
    /\ clicks = 0
    /\ edits = 0

----------------------------------------------------------------------------
(* The operations, called on their own *)

\* convert_units(value, from, to): returns a result, changes no session state
ConvertUnitsCall(value, from, to) ==
    /\ call' = [value |-> value, from |-> from, to |-> to,
                result |-> convert_units(value, from, to)]
    /\ prev' = NoCall
    /\ UNCHANGED <<histVars, now, favVars, uiVars>>

\* convert_units(r, to, from) for the result r of the last call: the way back
RoundTripCall ==
    /\ call.result # None
    /\ prev = NoCall
    /\ call' = [value |-> call.result, from |-> call.to, to |-> call.from,
                result |-> convert_units(call.result, call.to, call.from)]
    /\ prev' = call
    /\ UNCHANGED <<histVars, now, favVars, uiVars>>

\* lines 88-103 on the session state
save_conversion_history_state(value, from, to, result) ==
    /\ LET item == history_item(now, value, from, to, result)
       IN  /\ conversion_history' =
                  save_conversion_history(
                      IF has_conversion_history THEN conversion_history ELSE <<>>, item)
           /\ recorded' = Append(recorded, item)
    /\ has_conversion_history' = TRUE
    /\ serials' = save_conversion_history(serials, Len(recorded) + 1)

\* save_conversion_history(value, from, to, result), at most limit times
SaveCall(value, from, to, result, limit) ==
    /\ Len(recorded) < limit
    /\ save_conversion_history_state(value, from, to, result)
    /\ UNCHANGED <<convVars, now, favVars, uiVars>>

\* toggle_favorite(from, to)
ToggleCall(from, to) ==
    /\ favorites' = toggle_favorite(IF has_favorites THEN favorites ELSE {}, from, to)
    /\ has_favorites' = TRUE
    /\ UNCHANGED <<convVars, histVars, now, uiVars>>

\* a second passes
Tick ==
    /\ now < MaxClock
    /\ now' = now + 1
    /\ UNCHANGED <<convVars, histVars, favVars, uiVars>>

----------------------------------------------------------------------------
(* main(): the widgets and the Convert button *)

\* line 365: another category; the unit selectboxes get new options and
\* fall back to the first of them
SelectCategory(c) ==
    /\ edits < MaxEdits
    /\ c # category
    /\ category' = c
    /\ from_unit' = CATEGORIES[c][1]
    /\ to_unit' = CATEGORIES[c][1]
    /\ edits' = edits + 1
    /\ UNCHANGED <<convVars, histVars, now, favVars, input_value, clicks>>

\* line 372
SelectFromUnit(u) ==
    /\ edits < MaxEdits
    /\ u # from_unit
    /\ from_unit' = u
    /\ edits' = edits + 1
    /\ UNCHANGED <<convVars, histVars, now, favVars, category, to_unit, input_value, clicks>>

\* line 374
SelectToUnit(u) ==
    /\ edits < MaxEdits
    /\ u # to_unit
    /\ to_unit' = u
    /\ edits' = edits + 1
    /\ UNCHANGED <<convVars, histVars, now, favVars, category, from_unit, input_value, clicks>>

\* line 378
EnterValue(v) ==
    /\ edits < MaxEdits
    /\ v # input_value
    /\ input_value' = v
    /\ edits' = edits + 1
    /\ UNCHANGED <<convVars, histVars, now, favVars, category, from_unit, to_unit, clicks>>

\* a variant of the Convert button that tests "if result:", which a result
\* of 0 fails
ConvertButtonTruthy ==
    /\ clicks < MaxConverts
    /\ clicks' = clicks + 1
    /\ LET result == convert_units(input_value, from_unit, to_unit)
       IN  /\ call' = [value |-> input_value, from |-> from_unit, to |-> to_unit,
                       result |-> result]
           /\ IF result # None /\ result # Num(0)
              THEN save_conversion_history_state(input_value, from_unit, to_unit, result)
              ELSE UNCHANGED histVars
    /\ prev' = NoCall
    /\ UNCHANGED <<now, favVars, category, from_unit, to_unit, input_value, edits>>

\* lines 390-394: convert, and save the conversion if it gave a result
ConvertButton ==
    /\ clicks < MaxConverts
    /\ clicks' = clicks + 1
    /\ LET result == convert_units(input_value, from_unit, to_unit)
       IN  /\ call' = [value |-> input_value, from |-> from_unit, to |-> to_unit,
                       result |-> result]
           /\ IF result # None
              THEN save_conversion_history_state(input_value, from_unit, to_unit, result)
              ELSE UNCHANGED histVars
    /\ prev' = NoCall
    /\ UNCHANGED <<now, favVars, category, from_unit, to_unit, input_value, edits>>

----------------------------------------------------------------------------
(* Specifications *)

\* a session of main()
Next ==
    \/ \E c \in Range(CategoryNames) : SelectCategory(c)
    \/ \E u \in Range(CATEGORIES[category]) : SelectFromUnit(u)
    \/ \E u \in Range(CATEGORIES[category]) : SelectToUnit(u)
    \/ \E v \in NumberInputs : EnterValue(v)
    \/ ConvertButton

Spec == Init /\ [][Next]_vars

\* convert_units as a function of its arguments
NextConv ==
    \/ \E value \in Values, from \in UnitNames, to \in UnitNames :
           ConvertUnitsCall(value, from, to)
    \/ RoundTripCall

SpecConv == Init /\ [][NextConv]_vars

\* sequences of save_conversion_history calls
NextHist ==
    \E r \in SaveRequests :
        SaveCall(r[1], r[2], r[3], convert_units(r[1], r[2], r[3]), MaxRecords)

SpecHist == Init /\ [][NextHist]_vars

\* the three operations in any order
NextCore ==
    \/ \E value \in CoreValues, from \in CoreUnits, to \in CoreUnits :
           ConvertUnitsCall(value, from, to)
    \/ \E r \in SaveRequests :
           SaveCall(r[1], r[2], r[3], convert_units(r[1], r[2], r[3]), MaxCoreRecords)
    \/ \E from \in FavoriteUnits, to \in FavoriteUnits : ToggleCall(from, to)
    \/ Tick

SpecCore == Init /\ [][NextCore]_vars

----------------------------------------------------------------------------
(* The conversion history *)

Min(a, b) == IF a < b THEN a ELSE b

Positions == 1..Len(conversion_history)

\* C1: after any sequence of save_conversion_history calls the history holds
\* at most 10 entries and is ordered most-recent-first: of any two entries,
\* the one nearer the front was recorded later.
C1_HistoryBoundedNewestFirst ==
    /\ Len(conversion_history) <= HistoryLimit
    /\ Len(serials) = Len(conversion_history)
    /\ \A i \in Positions : /\ serials[i] \in 1..Len(recorded)
                            /\ conversion_history[i] = recorded[serials[i]]
    /\ \A i \in Positions : \A j \in Positions : i < j => serials[i] > serials[j]

\* a full history from which an entry has been evicted, holding different entries
C1_Witness ==
    /\ Len(recorded) > HistoryLimit
    /\ Len(conversion_history) = HistoryLimit
    /\ conversion_history[1] # conversion_history[2]

\* C2: after n calls on an empty history, the history is exactly the last
\* min(n, 10) recorded entries in reverse order of recording; after 15
\* recordings its length is 10, its first element is the 15th recorded entry
\* and the 1st to 5th recorded entries are gone.
C2_HistoryIsLastTenReversed ==
    LET n == Len(recorded)
        k == Min(n, 10)
    IN  /\ Len(conversion_history) = k
        /\ \A i \in 1..k : conversion_history[i] = recorded[n - i + 1]
        /\ n = 15 =>
               /\ Len(conversion_history) = 10
               /\ conversion_history[1] = recorded[15]
               /\ \A i \in Positions : serials[i] \notin 1..5

\* fifteen recordings, the 15th unlike the 5th
C2_Witness ==
    /\ Len(recorded) = 15
    /\ recorded[15] # recorded[5]
    /\ Len(conversion_history) = 10

\* C9: a Convert action changes the history only when the conversion
\* succeeds: on the error outcome the history is unchanged; on a number
\* (0 included) exactly one entry with the request's value, units and that
\* result is inserted at the front, and the entries already there keep their
\* fields and order until they are evicted.  No other step changes an entry.
C9_ConvertSavesOnlySuccess ==
    [][IF clicks' = clicks + 1
       THEN IF call'.result = None
            THEN /\ conversion_history' = conversion_history
                 /\ has_conversion_history' = has_conversion_history
                 /\ recorded' = recorded
            ELSE /\ Len(recorded') = Len(recorded) + 1
                 /\ Len(conversion_history') =
                        Min(Len(conversion_history) + 1, HistoryLimit)
                 /\ conversion_history'[1].value = input_value
                 /\ conversion_history'[1].from_unit = from_unit
                 /\ conversion_history'[1].to_unit = to_unit
                 /\ conversion_history'[1].result = call'.result
                 /\ \A i \in 2..Len(conversion_history') :
                        conversion_history'[i] = conversion_history[i - 1]
       ELSE conversion_history' = conversion_history]_vars

\* eleven conversions were saved, the first of them (0 meters = 0 meters)
\* evicted and the second, also with result 0, now last; then a conversion
\* failed and left the ten entries in place
C9_Witness ==
    /\ call # NoCall
    /\ call.result = None
    /\ Len(recorded) = HistoryLimit + 1
    /\ Len(conversion_history) = HistoryLimit
    /\ conversion_history[HistoryLimit].result = Num(0)
    /\ conversion_history[HistoryLimit] = recorded[2]

----------------------------------------------------------------------------
(* convert_units *)

Called == call # NoCall

\* the units the registry defines that are no temperature units
RegistryUnits == DOMAIN ureg \ TemperatureUnits

\* C4: for two recognized non-temperature units of different physical
\* dimensions, convert_units returns the error outcome, never a number.
C4_IncompatibleDimensionsFail ==
    (/\ Called
     /\ call.from \in RegistryUnits
     /\ call.to \in RegistryUnits
     /\ ureg[call.from].dim # ureg[call.to].dim)
        => call.result = None

\* convert_units(1-like finite value, "meters", "kilograms") was called
C4_Witness ==
    /\ IsFinite(call.value)
    /\ call.from = "meters"
    /\ call.to = "kilograms"
    /\ call.result = None

\* C5: from a temperature unit to a unit that is none of the four,
\* convert_units returns the error outcome and no numeric result.
C5_TemperatureToOtherFails ==
    (/\ Called
     /\ call.from \in TemperatureUnits
     /\ call.to \notin TemperatureUnits)
        => call.result = None

\* C6: for a value that is a float but not finite (NaN, +inf, -inf),
\* convert_units returns the error outcome and produces no numeric result.
C6_NonFiniteValueFails ==
    (Called /\ call.value.kind \in {"nan", "inf", "-inf"}) => call.result = None

\* the kelvin value of v in unit u, by the formulas of the claim, on fractions
Kelvin(u, v) ==
    CASE u = "celsius" -> Rat(100 * v.num + 27315 * v.den, 100 * v.den)
      [] u = "fahrenheit" -> Rat(5 * (100 * v.num + 45967 * v.den), 900 * v.den)
      [] u = "rankine" -> Rat(5 * v.num, 9 * v.den)
      [] u = "kelvin" -> v

\* the value in unit u of k kelvin, by the inverse formulas, on fractions
OfKelvin(u, k) ==
    CASE u = "celsius" -> Rat(100 * k.num - 27315 * k.den, 100 * k.den)
      [] u = "fahrenheit" -> Rat(900 * k.num - 5 * 45967 * k.den, 500 * k.den)
      [] u = "rankine" -> Rat(9 * k.num, 5 * k.den)
      [] u = "kelvin" -> k

IsCall(value, from, to) == call.value = value /\ call.from = from /\ call.to = to

\* C7: between temperature units convert_units returns the value normalized
\* to kelvin and denormalized with the inverse formula of the target unit; in
\* exact arithmetic 0 C = 32 F, 100 C = 373.15 K and 32 F = 0 C.
C7_TemperatureFormulas ==
    /\ (/\ Called
        /\ call.from \in TemperatureUnits
        /\ call.to \in TemperatureUnits
        /\ IsFinite(call.value))
           => call.result = OfKelvin(call.to, Kelvin(call.from, call.value))
    /\ IsCall(Num(0), "celsius", "fahrenheit") => call.result = Num(32)
    /\ IsCall(Num(100), "celsius", "kelvin") => call.result = Rat(37315, 100)
    /\ IsCall(Num(32), "fahrenheit", "celsius") => call.result = Num(0)

\* convert_units(0, "celsius", "fahrenheit") returned 32
C7_Witness == IsCall(Num(0), "celsius", "fahrenheit") /\ call.result = Num(32)

\* C8: converting a finite value from one temperature unit to another and the
\* result back yields the value again (in exact arithmetic).
C8_TemperatureRoundTrip ==
    (/\ prev # NoCall
     /\ prev.from \in TemperatureUnits
     /\ prev.to \in TemperatureUnits
     /\ IsFinite(prev.value))
        => /\ call.value = prev.result
           /\ call.from = prev.to
           /\ call.to = prev.from
           /\ call.result = prev.value

\* 100 celsius went to 212 fahrenheit and came back as 100
C8_Witness ==
    /\ prev = [value |-> Num(100), from |-> "celsius", to |-> "fahrenheit",
               result |-> Num(212)]
    /\ call.from = "fahrenheit"
    /\ call.to = "celsius"
    /\ call.result = Num(100)

----------------------------------------------------------------------------
(* Favorites and the frame of each operation *)

\* the favorites as main() reads them: st.session_state.get('favorites', set())
FavoriteSet == IF has_favorites THEN favorites ELSE {}

\* C3: whatever the favorites (absent, empty, with or without the key) and
\* the pair (a, b), one toggle_favorite(a, b) changes the membership of the key
\* "a->b", and a second one right after it restores the set of favorites.
C3_ToggleTwiceRestores ==
    [][\A a \in FavoriteUnits : \A b \in FavoriteUnits :
           ToggleCall(a, b) =>
               /\ ((a \o "->" \o b) \in favorites') # ((a \o "->" \o b) \in FavoriteSet)
               /\ toggle_favorite(favorites', a, b) = FavoriteSet]_vars

\* the favorites exist and are empty: a key was added to the absent set and
\* removed by the next toggle of the same pair
C3_Witness == has_favorites /\ favorites = {}

\* C10: each operation changes its own part of the session state only:
\* convert_units neither history nor favorites, save_conversion_history not
\* the favorites, and toggle_favorite(a, b) not the history and the membership
\* of no key but "a->b" (the reversed key "b->a" keeps its membership).
C10_FrameOfEachOperation ==
    [][/\ call' # call =>
              /\ UNCHANGED <<conversion_history, has_conversion_history>>
              /\ UNCHANGED <<favorites, has_favorites>>
       /\ recorded' # recorded => UNCHANGED <<favorites, has_favorites>>
       /\ favorites' # favorites =>
              UNCHANGED <<conversion_history, has_conversion_history>>
       /\ \A a \in FavoriteUnits : \A b \in FavoriteUnits :
              ToggleCall(a, b) =>
                  (favorites' \ FavoriteSet) \cup (FavoriteSet \ favorites')
                      = {a \o "->" \o b}]_vars

\* all three operations have acted; "meters->feet" is a favorite and
\* "feet->meters" is not
C10_Witness ==
    /\ Called
    /\ Len(conversion_history) > 0
    /\ "meters->feet" \in favorites
    /\ "feet->meters" \notin favorites

====
